---- MODULE Spec2Model ----
(***************************************************************************)
(* Model of FieldMappingAgent (src/index.js): one agent object, its        *)
(* asynchronous processAllSupplierFiles runs against the chat-completion   *)
(* Oracle, and the reshaping done by getFinalMappingStructure.             *)
(*                                                                         *)
(* JavaScript values are tagged records, so that undefined, null, strings, *)
(* arrays and objects can be told apart and compared.  A JavaScript object *)
(* read from JSON is Obj(props) with props a function from the property    *)
(* names that are present to their values; an object built by the code     *)
(* (formattedMappings) is the sequence of its own properties in insertion  *)
(* order, which is the order JSON.stringify and Object.keys report for     *)
(* keys that are not array indices.                                        *)
(***************************************************************************)
EXTENDS Integers, Sequences, FiniteSets, TLC

VARIABLES
    zoroFields,      \* this.zoroFields
    mappingRules,    \* this.mappingRules
    pc,              \* "idle", or "awaiting" while a run is suspended on the Oracle call
    request,         \* the argument of the latest chat.completions.create call
    oracleCalls,     \* number of chat.completions.create calls made so far
    runs,            \* number of processAllSupplierFiles invocations started so far
    responses,       \* what the Oracle answered to each call, in order
    finalMappings    \* what the latest getFinalMappingStructure call produced

vars == <<zoroFields, mappingRules, pc, request, oracleCalls, runs, responses, finalMappings>>

\* Longest mappings array the Oracle returns, and most runs on one agent.
MaxMappings == 2
MaxRuns == 2

----------------------------------------------------------------------------
(* JavaScript values and the operators the code applies to them.           *)

Undefined == [t |-> "undefined"]
Null == [t |-> "null"]
Str(s) == [t |-> "string", s |-> s]
Arr(items) == [t |-> "array", items |-> items]
Obj(props) == [t |-> "object", props |-> props]

\* v[k] for a value v that is neither undefined nor null.
Get(v, k) ==
    IF v.t = "object" /\ k \in DOMAIN v.props THEN v.props[k] ELSE Undefined

\* ToBoolean(v), as used by ||.
Truthy(v) ==
    CASE v.t = "undefined" -> FALSE
      [] v.t = "null" -> FALSE
      [] v.t = "string" -> v.s # ""
      [] OTHER -> TRUE

\* v || ''
OrEmpty(v) == IF Truthy(v) THEN v ELSE Str("")

\* The property key obj[v] uses.
ToPropertyKey(v) ==
    CASE v.t = "string" -> v.s
      [] v.t = "null" -> "null"
      [] OTHER -> "undefined"

\* An assignment that leaves a property that exists as it is.
SetPropertyKeepFirst(obj, k, v) ==
    IF \E i \in DOMAIN obj : obj[i].key = k
    THEN obj
    ELSE Append(obj, [key |-> k, value |-> v])

\* obj[k] = v on an object kept as the sequence of its own properties.
SetProperty(obj, k, v) ==
    IF \E i \in DOMAIN obj : obj[i].key = k
    THEN [i \in DOMAIN obj |-> IF obj[i].key = k THEN [key |-> k, value |-> v] ELSE obj[i]]
    ELSE Append(obj, [key |-> k, value |-> v])

\* array.join(sep)
RECURSIVE Join(_, _)
Join(seq, sep) ==
    IF Len(seq) = 0 THEN ""
    ELSE IF Len(seq) = 1 THEN seq[1]
    ELSE seq[1] \o sep \o Join(Tail(seq), sep)

----------------------------------------------------------------------------
(* Literals of the source.                                                 *)

loadZoroFields ==
    <<"supplierSku", "product_id", "product_name", "price", "quantity",
      "is_available", "total_value">>

loadSupplierFields ==
    <<"PRODUCTCODE", "STOCK", "EXPECTEDDATE", "stock no", "primary", "secondary",
      "tertiary", "cstock", "direct", "isStocked">>

UserInstructions ==
    "Additional User Instructions: is_available zoro field is boolean based on isStocked supplier field equals to 'YES'"

SystemContent ==
    "You are a helpful assistant that helps map supplier fields to Zoro fields. "
    \o "For each Zoro field, suggest either a direct mapping from supplier fields or "
    \o "a formula that combines multiple supplier fields. "
    \o "Respond with a JSON object containing the mapping rules."

----------------------------------------------------------------------------
(* The request.  A prompt is the sequence of its paragraphs.               *)

ZoroFieldsLine(fields) == "Zoro Fields: " \o Join(fields, ", ")
SupplierFieldsLine(fields) == "Supplier Fields: " \o Join(fields, ", ")

StructureLines ==
    <<"Return your response as a JSON object with the following structure:",
      "{ \"mappings\": [ { \"zoroField\": \"field_name\", \"direct\": \"supplier_field_name\", \"formula\": \"\" }, ... ] }">>

createMappingPrompt(zf, sf) ==
    <<"I need to map supplier fields to Zoro fields. Here are the details:",
      ZoroFieldsLine(zf),
      SupplierFieldsLine(sf),
      "For each Zoro field, please suggest either: 1. A direct mapping to a single supplier field 2. For formulas: JavaScript syntax compatible with expr-eval",
      "The formula can be: mathematical operations, conditional mappings, string concatenations">>
    \o StructureLines
    \o <<"Provide the most logical mappings you can identify.">>

\* `${prompt}\n\nAdditional User Instructions: ...`
fullPrompt(prompt) == prompt \o <<UserInstructions>>

\* The argument generateMappingSuggestions passes to chat.completions.create.
ChatRequest(zf, sf) ==
    LET prompt == createMappingPrompt(zf, sf)
        full == fullPrompt(prompt)
    IN  [model |-> "gpt-4o",
         system |-> SystemContent,
         user |-> prompt,
         max_tokens |-> 1000,
         response_format |-> "json_object"]

NoRequest == [model |-> "none"]

----------------------------------------------------------------------------
(* The Oracle's answers.  A resolved call carries a text; a text is either *)
(* not JSON or the JSON document of a value.                               *)

Rejected == [kind |-> "rejected"]
Resolved(content) == [kind |-> "resolved", content |-> content]

NonJsonText == [json |-> FALSE]
JsonText(value) == [json |-> TRUE, value |-> value]

\* JSON.parse(text)
JSONparse(text) ==
    IF text.json THEN [threw |-> FALSE, value |-> text.value]
    ELSE [threw |-> TRUE, value |-> Undefined]

\* All sequences over S of length at most n.
SeqUpTo(S, n) == UNION {[1..k -> S] : k \in 0..n}

FormulaText == "isStocked === \"YES\""

\* Suggestions of the runs that exercise the whole agent.
BatchSuggestions ==
    {Obj([zoroField |-> Str("product_id"), direct |-> Str("PRODUCTCODE"), formula |-> Str("")]),
     Obj([zoroField |-> Str("is_available"), direct |-> Str(""), formula |-> Str(FormulaText)])}

\* Suggestions of the runs that exercise the reshaping: the field is named
\* by zoroField or by targetField, is a Zoro field or not, and direct and
\* formula are absent, null, empty or set.
KeyProps ==
    {[zoroField |-> Str(n)] : n \in {"product_id", "is_available", "unknown_field"}}
    \cup {[targetField |-> Str(n)] : n \in {"product_id", "is_available"}}
DirectProps == {<<>>, [direct |-> Null], [direct |-> Str("")], [direct |-> Str("PRODUCTCODE")]}
FormulaProps == {<<>>, [formula |-> Str("")], [formula |-> Str(FormulaText)]}

ReshapeSuggestions ==
    {Obj(k @@ d @@ f) : k \in KeyProps, d \in DirectProps, f \in FormulaProps}

\* The texts a resolved call may carry, given the suggestions to draw from.
Contents(suggestions) ==
    {NonJsonText, JsonText(Null), JsonText(Obj(<<>>))}
    \cup {JsonText(Obj([mappings |-> Arr(items)])) : items \in SeqUpTo(suggestions, MaxMappings)}

BatchContents == Contents(BatchSuggestions)
ReshapeContents == Contents(ReshapeSuggestions)

----------------------------------------------------------------------------
(* getFinalMappingStructure                                                *)

\* { direct: mapping.direct || '', formula: mapping.formula || '' }
FormatEntry(mapping) ==
    [direct |-> OrEmpty(Get(mapping, "direct")),
     formula |-> OrEmpty(Get(mapping, "formula"))]

\* A key read from the targetField property instead.
MappingKeyTargetField(mapping) == ToPropertyKey(Get(mapping, "targetField"))

\* The key of formattedMappings[mapping.zoroField].
MappingKey(mapping) == ToPropertyKey(Get(mapping, "zoroField"))

\* rule.mappings.forEach(...) from item i on, into formattedMappings.
RECURSIVE ForEachMapping(_, _, _)
ForEachMapping(items, i, formattedMappings) ==
    IF i > Len(items) THEN formattedMappings
    ELSE ForEachMapping(items, i + 1,
             SetProperty(formattedMappings, MappingKey(items[i]), FormatEntry(items[i])))

\* rule.mappings.forEach throws a TypeError unless rule.mappings is an array.
RuleThrows(rule) == rule.mappings.t # "array"

FormatRule(rule) == ForEachMapping(rule.mappings.items, 1, <<>>)

getFinalMappingStructure(rules) ==
    IF \E i \in DOMAIN rules : RuleThrows(rules[i])
    THEN [status |-> "TypeError", tables |-> <<>>]
    ELSE [status |-> "ok", tables |-> [i \in DOMAIN rules |-> FormatRule(rules[i])]]

NotCalled == [status |-> "none", tables |-> <<>>]

----------------------------------------------------------------------------
(* The agent.                                                              *)

Init ==
    /\ zoroFields = <<>>
    /\ mappingRules = <<>>
    /\ pc = "idle"
    /\ request = NoRequest
    /\ oracleCalls = 0
    /\ runs = 0
    /\ responses = <<>>
    /\ finalMappings = NotCalled

\* processAllSupplierFiles up to the await of the Oracle call.
ProcessAllSupplierFiles(limit) ==
    /\ pc = "idle"
    /\ runs < limit
    /\ zoroFields' = loadZoroFields
    /\ request' = ChatRequest(loadZoroFields, loadSupplierFields)
    /\ oracleCalls' = oracleCalls + 1
    /\ runs' = runs + 1
    /\ pc' = "awaiting"
    /\ UNCHANGED <<mappingRules, responses, finalMappings>>

\* A catch block that calls the Oracle again instead of rethrowing.
OracleRejectsRetry ==
    /\ pc = "awaiting"
    /\ responses' = Append(responses, [kind |-> "rejected"])
    /\ oracleCalls' = oracleCalls + 1
    /\ UNCHANGED <<zoroFields, mappingRules, pc, request, runs, finalMappings>>

\* The call rejects: generateMappingSuggestions logs and rethrows,
\* processAllSupplierFiles logs and returns.
OracleRejects ==
    /\ pc = "awaiting"
    /\ responses' = Append(responses, Rejected)
    /\ pc' = "idle"
    /\ UNCHANGED <<zoroFields, mappingRules, request, oracleCalls, runs, finalMappings>>

\* The call resolves with a text: generateMappingSuggestions parses it and
\* processAllSupplierFiles stores mappings.mappings, or catches what was thrown.
OracleResolves(content) ==
    /\ pc = "awaiting"
    /\ LET parsed == JSONparse(content)
       IN  IF parsed.threw \/ parsed.value.t \in {"null", "undefined"}
           THEN UNCHANGED mappingRules
           ELSE mappingRules' = Append(mappingRules,
                    [supplierFile |-> "", mappings |-> Get(parsed.value, "mappings")])
    /\ responses' = Append(responses, Resolved(content))
    /\ pc' = "idle"
    /\ UNCHANGED <<zoroFields, request, oracleCalls, runs, finalMappings>>

GetFinalMappingStructure ==
    /\ finalMappings' = getFinalMappingStructure(mappingRules)
    /\ UNCHANGED <<zoroFields, mappingRules, pc, request, oracleCalls, runs, responses>>

\* Runs of the agent in sequence.
Next ==
    \/ ProcessAllSupplierFiles(MaxRuns)
    \/ OracleRejects
    \/ pc = "awaiting" /\ \E content \in BatchContents : OracleResolves(content)
    \/ GetFinalMappingStructure

Spec == Init /\ [][Next]_vars

\* One run of the agent, over the wider range of suggestions.
NextReshape ==
    \/ ProcessAllSupplierFiles(1)
    \/ OracleRejects
    \/ pc = "awaiting" /\ \E content \in ReshapeContents : OracleResolves(content)
    \/ GetFinalMappingStructure

SpecReshape == Init /\ [][NextReshape]_vars

----------------------------------------------------------------------------
(* Vocabulary of the properties.                                           *)

Range(seq) == {seq[i] : i \in DOMAIN seq}
Keys(table) == [i \in DOMAIN table |-> table[i].key]
HasKey(table, k) == \E i \in DOMAIN table : table[i].key = k
Lookup(table, k) == (CHOOSE i \in DOMAIN table : table[i].key = k)
EntryOf(table, k) == table[Lookup(table, k)].value
DefaultEntry == [direct |-> Str(""), formula |-> Str("")]

\* "v if present else the empty string"
IfPresent(v) == IF v.t \in {"undefined", "null"} THEN Str("") ELSE v

\* The suggestions of the rule a table was built from.
ItemsOf(i) == mappingRules[i].mappings.items

\* Suggestion m names field f in its property prop.
NamesIn(m, prop, f) == Get(m, prop) = Str(f)

\* Suggestion j of items is the last one that names f in prop.
LastFor(items, j, prop, f) ==
    /\ NamesIn(items[j], prop, f)
    /\ \A k \in DOMAIN items : k > j => ~NamesIn(items[k], prop, f)

\* The entry of every known field is built from the last suggestion that
\* names it in property prop.
EntryBuiltFrom(prop) ==
    finalMappings.status = "ok" =>
        \A i \in DOMAIN finalMappings.tables :
            \A j \in DOMAIN ItemsOf(i) :
                \A f \in Range(zoroFields) :
                    LastFor(ItemsOf(i), j, prop, f) =>
                        /\ HasKey(finalMappings.tables[i], f)
                        /\ EntryOf(finalMappings.tables[i], f) =
                               [direct |-> IfPresent(Get(ItemsOf(i)[j], "direct")),
                                formula |-> IfPresent(Get(ItemsOf(i)[j], "formula"))]

\* The answer has the documented shape: a JSON object with a mappings array.
DocumentedShape(resp) ==
    /\ resp.kind = "resolved"
    /\ resp.content.json
    /\ resp.content.value.t = "object"
    /\ Get(resp.content.value, "mappings").t = "array"

\* The tables of the runs whose answer had the documented shape, in order.
TablesOfGoodRuns(resps) ==
    LET good == SelectSeq(resps, DocumentedShape)
    IN  [i \in DOMAIN good |->
            ForEachMapping(Get(good[i].content.value, "mappings").items, 1, <<>>)]

----------------------------------------------------------------------------
(* The properties.                                                         *)

\* C1: the keys of every table produced are exactly the target fields, each
\* once and in the order of the target field list.
C1_KeysAreTargetFields ==
    finalMappings.status = "ok" =>
        \A i \in DOMAIN finalMappings.tables :
            Keys(finalMappings.tables[i]) = zoroFields

\* C2: a target field that no suggestion names is in the table with the
\* default entry; from an empty suggestion list the table has one default
\* entry per target field.
C2_UnnamedFieldsDefault ==
    finalMappings.status = "ok" =>
        \A i \in DOMAIN finalMappings.tables :
            /\ \A f \in Range(zoroFields) :
                   (\A j \in DOMAIN ItemsOf(i) :
                        ~NamesIn(ItemsOf(i)[j], "zoroField", f)
                        /\ ~NamesIn(ItemsOf(i)[j], "targetField", f))
                   => /\ HasKey(finalMappings.tables[i], f)
                      /\ EntryOf(finalMappings.tables[i], f) = DefaultEntry
            /\ ItemsOf(i) = <<>> => Len(finalMappings.tables[i]) = Len(zoroFields)

\* C3 as stated: the entry of a known field is built from the last suggestion
\* whose targetField property names it.
C3_EntryFromTargetField == EntryBuiltFrom("targetField")

\* C3 as amended: the entry of a known field is built from the last
\* suggestion whose zoroField property names it, direct and formula being
\* the suggestion's strings, or the empty string where absent.
C3_EntryFromZoroField == EntryBuiltFrom("zoroField")

C3_Witness ==
    /\ finalMappings.status = "ok"
    /\ \E i \in DOMAIN finalMappings.tables :
           /\ Len(ItemsOf(i)) = 2
           /\ LastFor(ItemsOf(i), 1, "zoroField", "product_id")
           /\ Get(ItemsOf(i)[1], "direct") = Str("PRODUCTCODE")
           /\ LastFor(ItemsOf(i), 2, "zoroField", "is_available")
           /\ Get(ItemsOf(i)[2], "formula") = Str(FormulaText)
           /\ "direct" \notin DOMAIN ItemsOf(i)[2].props
           /\ EntryOf(finalMappings.tables[i], "is_available") =
                  [direct |-> Str(""), formula |-> Str(FormulaText)]

\* C4: when several suggestions of one list name the same field, the table
\* has one entry for that field, and its direct and its formula are both
\* those of the last of them.
C4_LastWriteWins ==
    finalMappings.status = "ok" =>
        \A i \in DOMAIN finalMappings.tables :
            \A j, k \in DOMAIN ItemsOf(i) :
                (/\ j < k
                 /\ Get(ItemsOf(i)[j], "zoroField").t = "string"
                 /\ Get(ItemsOf(i)[j], "zoroField") = Get(ItemsOf(i)[k], "zoroField")
                 /\ \A l \in DOMAIN ItemsOf(i) :
                        l > k => Get(ItemsOf(i)[l], "zoroField") # Get(ItemsOf(i)[k], "zoroField"))
                => LET f == Get(ItemsOf(i)[k], "zoroField").s
                       table == finalMappings.tables[i]
                   IN  /\ Cardinality({n \in DOMAIN table : table[n].key = f}) = 1
                       /\ EntryOf(table, f).direct = IfPresent(Get(ItemsOf(i)[k], "direct"))
                       /\ EntryOf(table, f).formula = IfPresent(Get(ItemsOf(i)[k], "formula"))

C4_Witness ==
    /\ finalMappings.status = "ok"
    /\ \E i \in DOMAIN finalMappings.tables :
           /\ Len(ItemsOf(i)) = 2
           /\ ItemsOf(i)[1] = Obj([zoroField |-> Str("product_id"), direct |-> Str("PRODUCTCODE"),
                                   formula |-> Str(FormulaText)])
           /\ ItemsOf(i)[2] = Obj([zoroField |-> Str("product_id"), direct |-> Str("")])
           /\ finalMappings.tables[i] = <<[key |-> "product_id", value |-> DefaultEntry]>>

\* C5: a suggestion that names a field outside the target fields adds no
\* key to the table.
C5_UnknownFieldDropped ==
    finalMappings.status = "ok" =>
        \A i \in DOMAIN finalMappings.tables :
            \A j \in DOMAIN ItemsOf(i) :
                LET name == Get(ItemsOf(i)[j], "zoroField")
                IN  (name.t = "string" /\ name.s \notin Range(zoroFields))
                    => ~HasKey(finalMappings.tables[i], name.s)

\* C6: with an empty target field list the reshaping fails with SchemaError.
C6_EmptyTargetFieldsFail ==
    (zoroFields = <<>> /\ finalMappings # NotCalled) => finalMappings.status = "SchemaError"

\* C7: a run whose Oracle call fails, or answers with text that is not JSON
\* or not of the documented shape, appends nothing to the mapping rules.
C7_BadAnswerStoresNothing ==
    [][(pc = "awaiting" /\ pc' = "idle" /\ ~DocumentedShape(responses'[Len(responses')]))
        => mappingRules' = mappingRules]_vars

\* C8: every run makes exactly one Oracle call, whatever the answer: the
\* calls made are as many as the runs started, and each call is answered once.
C8_OneCallPerRun ==
    /\ oracleCalls = runs
    /\ oracleCalls = Len(responses) + (IF pc = "awaiting" THEN 1 ELSE 0)

C8_Witness ==
    /\ pc = "idle"
    /\ Len(responses) = 2
    /\ responses[1] = Rejected
    /\ responses[2] = Resolved(NonJsonText)
    /\ oracleCalls = 2

\* C9: the user prompt sent to the Oracle holds both field lists, the
\* expected response shape and the extra instructions.
C9_RequestCarriesInstructions ==
    request # NoRequest =>
        /\ ZoroFieldsLine(zoroFields) \in Range(request.user)
        /\ SupplierFieldsLine(loadSupplierFields) \in Range(request.user)
        /\ Range(StructureLines) \subseteq Range(request.user)
        /\ UserInstructions \in Range(request.user)

\* C10: whatever the runs before it, getFinalMappingStructure returns one
\* table per run whose answer had the documented shape, each built from that
\* run's suggestions alone.
C10_FaultIsolation ==
    [][finalMappings' # finalMappings =>
        /\ finalMappings'.status = "ok"
        /\ finalMappings'.tables = TablesOfGoodRuns(responses)]_vars

====
